---- MODULE Spec2Model ----
(***************************************************************************)
(* Model of mcp_use/agents/display.py: the console presenter of agent      *)
(* steps and streamed events.                                              *)
(*                                                                         *)
(* Python strings are sequences of one-character strings.  Python values   *)
(* are tagged records:                                                     *)
(*   [t |-> "none"]                      None                              *)
(*   [t |-> "bool",  v |-> TRUE]         True / False                      *)
(*   [t |-> "int",   v |-> 5]            int                               *)
(*   [t |-> "float", v |-> 2000]         float, v in millionths            *)
(*   [t |-> "str",   v |-> <<"a">>]      str                               *)
(*   [t |-> "list",  v |-> <<...>>]      list                              *)
(*   [t |-> "dict",  k |-> <<keys>>, v |-> <<values>>]  dict (ordered)     *)
(*   [t |-> "bytes", v |-> <<"a">>]      bytes (not JSON-encodable)        *)
(*   [t |-> "tuple", v |-> <<...>>]      tuple                             *)
(*   [t |-> "object", k |-> <<names>>, v |-> <<values>>]  an object with   *)
(*                                       the attributes k                  *)
(***************************************************************************)
EXTENDS Integers, Sequences, FiniteSets, TLC

VARIABLES pc, arg, console, stdout, logged, ret, raised

vars == <<pc, arg, console, stdout, logged, ret, raised>>

(***************************************************************************)
(* str methods used by display.py                                          *)
(***************************************************************************)

\* s[i:] (1-based i)
From(s, i) ==
    SubSeq(s, i, Len(s))

\* whether p occurs in s at position i
OccursAt(s, p, i) ==
    /\ i >= 1
    /\ i + Len(p) - 1 <= Len(s)
    /\ \A j \in 1..Len(p) : s[i + j - 1] = p[j]

\* str.startswith
StartsWith(s, p) ==
    OccursAt(s, p, 1)

\* `p in s` for strings
Contains(s, p) ==
    \E i \in 1..(Len(s) + 1) : OccursAt(s, p, i)

Min(S) ==
    CHOOSE x \in S : \A y \in S : x <= y

Max(S) ==
    CHOOSE x \in S : \A y \in S : x >= y

\* str.replace(old, new): left to right, non-overlapping
RECURSIVE Replace(_, _, _)
Replace(s, old, new) ==
    LET hits == {i \in 1..Len(s) : OccursAt(s, old, i)}
    IN  IF hits = {} THEN s
        ELSE LET i == Min(hits)
             IN  SubSeq(s, 1, i - 1) \o new \o Replace(From(s, i + Len(old)), old, new)

\* characters str.strip() and the regex class \s remove
Whitespace ==
    {" ", "\t", "\n", "\r", "\f"}

\* str.strip()
Strip(s) ==
    LET keep == {i \in 1..Len(s) : s[i] \notin Whitespace}
    IN  IF keep = {} THEN <<>> ELSE SubSeq(s, Min(keep), Max(keep))

\* str.split(sep)[-1] for a one-character separator
LastSegment(s, sep) ==
    LET at == {i \in 1..Len(s) : s[i] = sep}
    IN  IF at = {} THEN s ELSE From(s, Max(at) + 1)

\* "".join(parts)
RECURSIVE Join(_)
Join(parts) ==
    IF parts = <<>> THEN <<>> ELSE Head(parts) \o Join(Tail(parts))

(***************************************************************************)
(* Python values                                                           *)
(***************************************************************************)

PyNone == [t |-> "none"]
PyBool(b) == [t |-> "bool", v |-> b]
PyInt(n) == [t |-> "int", v |-> n]
PyFloat(micro) == [t |-> "float", v |-> micro]
PyStr(s) == [t |-> "str", v |-> s]
PyList(xs) == [t |-> "list", v |-> xs]
PyDict(ks, vs) == [t |-> "dict", k |-> ks, v |-> vs]
PyBytes(s) == [t |-> "bytes", v |-> s]
PyTuple(xs) == [t |-> "tuple", v |-> xs]
PyObject(ks, vs) == [t |-> "object", k |-> ks, v |-> vs]

\* bool(x)
Truthy(x) ==
    CASE x.t = "none" -> FALSE
      [] x.t = "bool" -> x.v
      [] x.t \in {"int", "float"} -> x.v # 0
      [] x.t \in {"str", "bytes", "list", "tuple"} -> Len(x.v) > 0
      [] x.t = "dict" -> Len(x.k) > 0
      [] x.t = "object" -> TRUE

\* `key in d` for a dict d
HasKey(d, key) ==
    \E i \in 1..Len(d.k) : d.k[i] = key

\* d[key] for a dict d that has the key
Item(d, key) ==
    d.v[CHOOSE i \in 1..Len(d.k) : d.k[i] = key]

\* d.get(key): None when the key is missing
Get(d, key) ==
    IF HasKey(d, key) THEN Item(d, key) ELSE PyNone

\* d[key] = val, keeping insertion order
DictSet(d, key, val) ==
    IF HasKey(d, key)
    THEN PyDict(d.k, [i \in 1..Len(d.k) |-> IF d.k[i] = key THEN val ELSE d.v[i]])
    ELSE PyDict(Append(d.k, key), Append(d.v, val))

(***************************************************************************)
(* json.loads, for the JSON used here: objects, arrays, strings with the   *)
(* escapes \" \\ \/ \n \t, integers, decimals without exponent, true,       *)
(* false, null.  A parse yields [ok, val, pos]: pos is the next position.  *)
(***************************************************************************)

Digits ==
    <<"0", "1", "2", "3", "4", "5", "6", "7", "8", "9">>

IsDigit(c) ==
    \E d \in 1..10 : Digits[d] = c

DigitVal(c) ==
    (CHOOSE d \in 1..10 : Digits[d] = c) - 1

JsonWs ==
    {" ", "\t", "\n", "\r"}

JsonFail ==
    [ok |-> FALSE, val |-> PyNone, pos |-> 0]

JsonOk(v, p) ==
    [ok |-> TRUE, val |-> v, pos |-> p]

SkipWs(s, i) ==
    Min({j \in i..(Len(s) + 1) : j = Len(s) + 1 \/ s[j] \notin JsonWs})

\* the character an escape letter stands for
Unescaped(e) ==
    CASE e = "n" -> "\n"
      [] e = "t" -> "\t"
      [] OTHER -> e

\* the body of a JSON string from position i, up to the closing quote
RECURSIVE ParseStringBody(_, _, _)
ParseStringBody(s, i, acc) ==
    IF i > Len(s) THEN JsonFail
    ELSE IF s[i] = "\"" THEN JsonOk(PyStr(acc), i + 1)
    ELSE IF s[i] = "\\"
         THEN IF i + 1 <= Len(s) /\ s[i + 1] \in {"\"", "\\", "/", "n", "t"}
              THEN ParseStringBody(s, i + 2, Append(acc, Unescaped(s[i + 1])))
              ELSE JsonFail
    ELSE IF s[i] \in {"\n", "\t", "\r", "\f"} THEN JsonFail
    ELSE ParseStringBody(s, i + 1, Append(acc, s[i]))

\* end of the run of digits that starts at i (i itself when there is none)
DigitsEnd(s, i) ==
    Min({j \in i..(Len(s) + 1) : j = Len(s) + 1 \/ ~IsDigit(s[j])})

RECURSIVE DigitsVal(_)
DigitsVal(ds) ==
    IF ds = <<>> THEN 0 ELSE 10 * DigitsVal(SubSeq(ds, 1, Len(ds) - 1)) + DigitVal(ds[Len(ds)])

RECURSIVE Pow10(_)
Pow10(n) ==
    IF n = 0 THEN 1 ELSE 10 * Pow10(n - 1)

\* a JSON number at i: -? (0 | [1-9][0-9]*) (. [0-9]+)?
ParseNumber(s, i) ==
    LET neg == i <= Len(s) /\ s[i] = "-"
        a == IF neg THEN i + 1 ELSE i
        e == IF a <= Len(s) /\ s[a] = "0" THEN a + 1 ELSE DigitsEnd(s, a)
        ip == DigitsVal(SubSeq(s, a, e - 1))
        sign == IF neg THEN -1 ELSE 1
    IN  IF e = a THEN JsonFail
        ELSE IF e <= Len(s) /\ s[e] = "." /\ DigitsEnd(s, e + 1) > e + 1
        THEN LET f == DigitsEnd(s, e + 1)
                 n == f - e - 1
                 fr == DigitsVal(SubSeq(s, e + 1, f - 1))
             IN  IF n > 6 THEN JsonFail
                 ELSE JsonOk(PyFloat(sign * (ip * 1000000 + fr * Pow10(6 - n))), f)
        ELSE JsonOk(PyInt(sign * ip), e)

RECURSIVE ParseValue(_, _)
RECURSIVE ParseElements(_, _, _)
RECURSIVE ParseMembers(_, _, _)

\* array elements from i (after "[" or ","), collected into acc
ParseElements(s, i, acc) ==
    LET r == ParseValue(s, SkipWs(s, i))
        j == SkipWs(s, r.pos)
    IN  IF ~r.ok \/ j > Len(s) THEN JsonFail
        ELSE IF s[j] = "]" THEN JsonOk(PyList(Append(acc, r.val)), j + 1)
        ELSE IF s[j] = "," THEN ParseElements(s, j + 1, Append(acc, r.val))
        ELSE JsonFail

\* object members from i (after "{" or ","), collected into the dict acc
ParseMembers(s, i, acc) ==
    LET a == SkipWs(s, i)
        key == IF a <= Len(s) /\ s[a] = "\"" THEN ParseStringBody(s, a + 1, <<>>) ELSE JsonFail
        c == IF key.ok THEN SkipWs(s, key.pos) ELSE 0
        r == IF key.ok /\ c <= Len(s) /\ s[c] = ":" THEN ParseValue(s, SkipWs(s, c + 1)) ELSE JsonFail
        j == IF r.ok THEN SkipWs(s, r.pos) ELSE 0
    IN  IF ~r.ok \/ j > Len(s) THEN JsonFail
        ELSE IF s[j] = "}" THEN JsonOk(DictSet(acc, key.val.v, r.val), j + 1)
        ELSE IF s[j] = "," THEN ParseMembers(s, j + 1, DictSet(acc, key.val.v, r.val))
        ELSE JsonFail

ParseValue(s, i) ==
    IF i > Len(s) THEN JsonFail
    ELSE IF s[i] = "{"
         THEN LET j == SkipWs(s, i + 1)
              IN  IF j <= Len(s) /\ s[j] = "}" THEN JsonOk(PyDict(<<>>, <<>>), j + 1)
                  ELSE ParseMembers(s, i + 1, PyDict(<<>>, <<>>))
    ELSE IF s[i] = "["
         THEN LET j == SkipWs(s, i + 1)
              IN  IF j <= Len(s) /\ s[j] = "]" THEN JsonOk(PyList(<<>>), j + 1)
                  ELSE ParseElements(s, i + 1, <<>>)
    ELSE IF s[i] = "\"" THEN ParseStringBody(s, i + 1, <<>>)
    ELSE IF OccursAt(s, <<"n","u","l","l">>, i) THEN JsonOk(PyNone, i + 4)
    ELSE IF OccursAt(s, <<"t","r","u","e">>, i) THEN JsonOk(PyBool(TRUE), i + 4)
    ELSE IF OccursAt(s, <<"f","a","l","s","e">>, i) THEN JsonOk(PyBool(FALSE), i + 5)
    ELSE ParseNumber(s, i)

\* json.loads(s): [ok |-> FALSE] stands for json.JSONDecodeError
JsonLoads(s) ==
    LET r == ParseValue(s, SkipWs(s, 1))
    IN  IF r.ok /\ SkipWs(s, r.pos) = Len(s) + 1 THEN r ELSE JsonFail

(***************************************************************************)
(* _extract_json_from_textcontent                                          *)
(***************************************************************************)

TextOpen ==
    <<"t","e","x","t","=","'">>

AnnotationsEq ==
    <<"a","n","n","o","t","a","t","i","o","n","s","=">>

\* whether ',\s*annotations= matches at position j
TerminatorAt(s, j) ==
    /\ OccursAt(s, <<"'", ",">>, j)
    /\ \E k \in (j + 2)..(Len(s) + 1) :
          /\ \A m \in (j + 2)..(k - 1) : s[m] \in Whitespace
          /\ OccursAt(s, AnnotationsEq, k)

\* the longest capture from the leftmost start, given the possible starts
CaptureFrom(s, starts) ==
    IF starts = {} THEN [found |-> FALSE, group1 |-> <<>>]
    ELSE [found |-> TRUE,
          group1 |-> SubSeq(s, Min(starts) + Len(TextOpen),
                            Max({m \in (Min(starts) + Len(TextOpen))..Len(s) : TerminatorAt(s, m)}) - 1)]

\* re.search(r"text='(.*)',\s*annotations=", s, re.DOTALL): [found, group1]
SearchTextPattern(s) ==
    CaptureFrom(s, {i \in 1..Len(s) :
                      /\ OccursAt(s, TextOpen, i)
                      /\ \E j \in (i + Len(TextOpen))..Len(s) : TerminatorAt(s, j)})

\* lines 29-30 with the second replace dropped
UnescapeQuotesOnly(json_str) ==
    Replace(json_str, <<"\\", "'">>, <<"'">>)

\* lines 29-30: the two replace calls, in the source's order
Unescape(json_str) ==
    Replace(Replace(json_str, <<"\\", "'">>, <<"'">>), <<"\\", "\\">>, <<"\\">>)

\* lines 31-36: the decoded value, or None on JSONDecodeError
LoadedOrNone(loaded) ==
    IF loaded.ok THEN loaded.val ELSE PyNone

\* lines 26-36: what a match yields
ExtractFromMatch(match) ==
    IF match.found THEN LoadedOrNone(JsonLoads(Unescape(match.group1))) ELSE PyNone

\* result_str is str(result); returns the decoded value, or None
_extract_json_from_textcontent(result_str) ==
    ExtractFromMatch(SearchTextPattern(result_str))

(***************************************************************************)
(* str(x) and repr(x)                                                      *)
(***************************************************************************)

\* decimal digits of n >= 0
RECURSIVE NatStr(_)
NatStr(n) ==
    IF n < 10 THEN <<Digits[n + 1]>> ELSE NatStr(n \div 10) \o <<Digits[(n % 10) + 1]>>

\* str(n) for an int
IntStr(n) ==
    IF n < 0 THEN <<"-">> \o NatStr(-n) ELSE NatStr(n)

\* n as exactly w digits (n < 10^w)
RECURSIVE Padded(_, _)
Padded(n, w) ==
    IF w = 0 THEN <<>> ELSE Padded(n \div 10, w - 1) \o <<Digits[(n % 10) + 1]>>

\* s without its trailing zeros, keeping at least one character
RECURSIVE TrimZeros(_)
TrimZeros(s) ==
    IF Len(s) > 1 /\ s[Len(s)] = "0" THEN TrimZeros(SubSeq(s, 1, Len(s) - 1)) ELSE s

Abs(n) ==
    IF n < 0 THEN -n ELSE n

\* repr of a float of `micro` millionths (0, or at least 0.0001 in magnitude)
FloatRepr(micro) ==
    (IF micro < 0 THEN <<"-">> ELSE <<>>)
        \o NatStr(Abs(micro) \div 1000000) \o <<".">> \o TrimZeros(Padded(Abs(micro) % 1000000, 6))

\* one character of a str inside repr's quotes
ReprChar(c, quote) ==
    CASE c = "\\" -> <<"\\", "\\">>
      [] c = quote -> <<"\\", quote>>
      [] c = "\n" -> <<"\\", "n">>
      [] c = "\t" -> <<"\\", "t">>
      [] c = "\r" -> <<"\\", "r">>
      [] OTHER -> <<c>>

\* repr(s) for a str: single quotes unless s has a ' and no "
StrRepr(s) ==
    LET quote == IF Contains(s, <<"'">>) /\ ~Contains(s, <<"\"">>) THEN "\"" ELSE "'"
    IN  <<quote>> \o Join([i \in 1..Len(s) |-> ReprChar(s[i], quote)]) \o <<quote>>

\* sep.join(parts)
RECURSIVE JoinWith(_, _)
JoinWith(parts, sep) ==
    IF parts = <<>> THEN <<>>
    ELSE IF Len(parts) = 1 THEN parts[1]
    ELSE parts[1] \o sep \o JoinWith(Tail(parts), sep)

RECURSIVE Repr(_)
Repr(x) ==
    CASE x.t = "none" -> <<"N","o","n","e">>
      [] x.t = "bool" -> IF x.v THEN <<"T","r","u","e">> ELSE <<"F","a","l","s","e">>
      [] x.t = "int" -> IntStr(x.v)
      [] x.t = "float" -> FloatRepr(x.v)
      [] x.t = "str" -> StrRepr(x.v)
      [] x.t = "bytes" -> <<"b">> \o StrRepr(x.v)
      [] x.t = "list" ->
            <<"[">> \o JoinWith([i \in 1..Len(x.v) |-> Repr(x.v[i])], <<",", " ">>) \o <<"]">>
      [] x.t = "dict" ->
            <<"{">> \o JoinWith([i \in 1..Len(x.k) |->
                                    StrRepr(x.k[i]) \o <<":", " ">> \o Repr(x.v[i])], <<",", " ">>)
                 \o <<"}">>
      [] x.t = "tuple" ->
            <<"(">> \o JoinWith([i \in 1..Len(x.v) |-> Repr(x.v[i])], <<",", " ">>)
                 \o (IF Len(x.v) = 1 THEN <<",">> ELSE <<>>) \o <<")">>
      [] x.t = "object" -> <<"<","o","b","j","e","c","t",">">>

\* str(x)
Str(x) ==
    IF x.t = "str" THEN x.v ELSE Repr(x)

(***************************************************************************)
(* json.dumps(x, indent=2)                                                 *)
(***************************************************************************)

\* whether json.dumps accepts x (bytes and plain objects raise TypeError)
RECURSIVE Encodable(_)
Encodable(x) ==
    CASE x.t \in {"list", "tuple", "dict"} -> \A i \in 1..Len(x.v) : Encodable(x.v[i])
      [] x.t \in {"bytes", "object"} -> FALSE
      [] OTHER -> TRUE

JsonChar(c) ==
    CASE c = "\\" -> <<"\\", "\\">>
      [] c = "\"" -> <<"\\", "\"">>
      [] c = "\n" -> <<"\\", "n">>
      [] c = "\t" -> <<"\\", "t">>
      [] c = "\r" -> <<"\\", "r">>
      [] OTHER -> <<c>>

JsonStr(s) ==
    <<"\"">> \o Join([i \in 1..Len(s) |-> JsonChar(s[i])]) \o <<"\"">>

\* a newline and the indentation of nesting level lvl
RECURSIVE NewlineIndent(_)
NewlineIndent(lvl) ==
    IF lvl = 0 THEN <<"\n">> ELSE NewlineIndent(lvl - 1) \o <<" ", " ">>

\* the encoding of an encodable x at nesting level lvl
RECURSIVE Dumps(_, _)
Dumps(x, lvl) ==
    CASE x.t = "none" -> <<"n","u","l","l">>
      [] x.t = "bool" -> IF x.v THEN <<"t","r","u","e">> ELSE <<"f","a","l","s","e">>
      [] x.t = "int" -> IntStr(x.v)
      [] x.t = "float" -> FloatRepr(x.v)
      [] x.t = "str" -> JsonStr(x.v)
      [] x.t \in {"list", "tuple"} ->
            IF x.v = <<>> THEN <<"[", "]">>
            ELSE <<"[">> \o NewlineIndent(lvl + 1)
                 \o JoinWith([i \in 1..Len(x.v) |-> Dumps(x.v[i], lvl + 1)],
                             <<",">> \o NewlineIndent(lvl + 1))
                 \o NewlineIndent(lvl) \o <<"]">>
      [] x.t = "dict" ->
            IF x.k = <<>> THEN <<"{", "}">>
            ELSE <<"{">> \o NewlineIndent(lvl + 1)
                 \o JoinWith([i \in 1..Len(x.k) |->
                                 JsonStr(x.k[i]) \o <<":", " ">> \o Dumps(x.v[i], lvl + 1)],
                             <<",">> \o NewlineIndent(lvl + 1))
                 \o NewlineIndent(lvl) \o <<"}">>

\* json.dumps(x, indent=2): [ok |-> FALSE] stands for TypeError
JsonDumps(x) ==
    IF Encodable(x) THEN [ok |-> TRUE, text |-> Dumps(x, 0)] ELSE [ok |-> FALSE, text |-> <<>>]

(***************************************************************************)
(* _render_content                                                         *)
(***************************************************************************)

CODE_THEME ==
    "stata-dark"

\* rich.markdown.Markdown(markup, code_theme=CODE_THEME)
Markdown(markup) ==
    [markup |-> markup, code_theme |-> CODE_THEME]

\* the backquote character (the module's lexer takes no backquote in a string)
Backquote ==
    "BACKQUOTE"

Fence ==
    <<Backquote, Backquote, Backquote>>

\* the f-string of a fenced code block: fence, language, newline, body, newline, fence
Fenced(lang, body) ==
    Fence \o lang \o <<"\n">> \o body \o <<"\n">> \o Fence

\* re.search(r"^#{1,6}\s|^\*\s|^-\s", s, re.MULTILINE)
MarkdownPattern(s) ==
    \E i \in 1..Len(s) :
        /\ i = 1 \/ s[i - 1] = "\n"
        /\ \/ \E n \in 1..6 :
                 /\ i + n <= Len(s)
                 /\ \A m \in i..(i + n - 1) : s[m] = "#"
                 /\ s[i + n] \in Whitespace
           \/ /\ i + 1 <= Len(s)
              /\ s[i] \in {"*", "-"}
              /\ s[i + 1] \in Whitespace

KwDef == <<"d","e","f"," ">>
KwClass == <<"c","l","a","s","s"," ">>
KwImport == <<"i","m","p","o","r","t"," ">>
KwFunction == <<"f","u","n","c","t","i","o","n"," ">>
KwConst == <<"c","o","n","s","t"," ">>
LangJson == <<"j","s","o","n">>
LangPython == <<"p","y","t","h","o","n">>
LangJavascript == <<"j","a","v","a","s","c","r","i","p","t">>

\* lines 64-81: the rules for text that is not rendered as JSON
RenderText(content_str, content_str_stripped) ==
    IF Contains(content_str, Fence) THEN Markdown(content_str)
    ELSE IF MarkdownPattern(content_str_stripped) THEN Markdown(content_str)
    ELSE IF /\ Contains(content_str, <<"\n">>)
            /\ \E kw \in {KwDef, KwClass, KwImport, KwFunction, KwConst} : Contains(content_str, kw)
         THEN IF Contains(content_str, KwDef) \/ Contains(content_str, KwImport)
              THEN Markdown(Fenced(LangPython, content_str))
              ELSE IF Contains(content_str, KwFunction) \/ Contains(content_str, KwConst)
              THEN Markdown(Fenced(LangJavascript, content_str))
              ELSE Markdown(Fenced(<<>>, content_str))
    ELSE Markdown(Fenced(<<>>, content_str))

\* lines 56-62 dropped: a dict or list goes to the rules for text
RenderDumpedAsText(content_str, content_str_stripped, is_container, dumped) ==
    RenderText(content_str, content_str_stripped)

\* lines 56-62: a dict or list is encoded, and falls through on TypeError
RenderDumped(content_str, content_str_stripped, is_container, dumped) ==
    IF is_container /\ dumped.ok
    THEN Markdown(Fenced(LangJson, dumped.text))
    ELSE RenderText(content_str, content_str_stripped)

\* lines 56-81
RenderContainer(content, content_str, content_str_stripped) ==
    RenderDumped(content_str, content_str_stripped, content.t \in {"dict", "list"},
                 JsonDumps(content))

\* lines 49-54: parsed is the outcome of json.loads, a failure when it was not tried
RenderParsed(content, content_str, content_str_stripped, parsed) ==
    IF parsed.ok
    THEN Markdown(Fenced(LangJson, JsonDumps(parsed.val).text))
    ELSE RenderContainer(content, content_str, content_str_stripped)

\* lines 47-81
RenderStripped(content, content_str, content_str_stripped) ==
    RenderParsed(content, content_str, content_str_stripped,
                 IF \/ StartsWith(content_str_stripped, <<"{">>)
                    \/ StartsWith(content_str_stripped, <<"[">>)
                 THEN JsonLoads(content_str_stripped)
                 ELSE JsonFail)

\* lines 45-81
RenderStr(content, content_str) ==
    RenderStripped(content, content_str, Strip(content_str))

_render_content(content) ==
    IF content.t = "none" THEN Markdown(Fenced(<<>>, <<"N","o","n","e">>))
    ELSE RenderStr(content, Str(content))

(***************************************************************************)
(* Console output and the effects of a call                                *)
(***************************************************************************)

\* console.print()
BlankLine ==
    [kind |-> "blank"]

\* console.print(Panel(renderable, title=..., border_style=..., padding=(0, 1)))
Panel(renderable, title, border_style) ==
    [kind |-> "panel", renderable |-> renderable, title |-> title,
     border_style |-> border_style, padding |-> <<0, 1>>]

\* console.print(Pretty(item))
Pretty(item) ==
    [kind |-> "pretty", obj |-> item]

\* a section of a handler ran to its end, having printed `printed`
Done(printed) ==
    [console |-> printed, raised |-> ""]

\* a section raised `exc` after printing `printed`
Raise(printed, exc) ==
    [console |-> printed, raised |-> exc]

\* what a call did: console output, text written to sys.stdout, log records,
\* and the exception that reached the caller ("" when it returned)
Effects(printed, written, records, exc) ==
    [console |-> printed, stdout |-> written, logged |-> records, raised |-> exc]

NoEffects ==
    Effects(<<>>, <<>>, <<>>, "")

(***************************************************************************)
(* Names and literals of display.py                                        *)
(***************************************************************************)

ExecuteCode == <<"e","x","e","c","u","t","e","_","c","o","d","e">>
KeyCode == <<"c","o","d","e">>
KeyLogs == <<"l","o","g","s">>
KeyResult == <<"r","e","s","u","l","t">>
KeyError == <<"e","r","r","o","r">>
KeyExecutionTime == <<"e","x","e","c","u","t","i","o","n","_","t","i","m","e">>
AttrTool == <<"t","o","o","l">>
AttrToolInput == <<"t","o","o","l","_","i","n","p","u","t">>
KeyEvent == <<"e","v","e","n","t">>
KeyData == <<"d","a","t","a">>
KeyName == <<"n","a","m","e">>
KeyInput == <<"i","n","p","u","t">>
KeyOutput == <<"o","u","t","p","u","t">>
KeyChunk == <<"c","h","u","n","k">>
KeyContent == <<"c","o","n","t","e","n","t">>
KeyText == <<"t","e","x","t">>
KeyType == <<"t","y","p","e">>
InputJsonDelta == <<"i","n","p","u","t","_","j","s","o","n","_","d","e","l","t","a">>
OnToolStart == <<"o","n","_","t","o","o","l","_","s","t","a","r","t">>
OnToolEnd == <<"o","n","_","t","o","o","l","_","e","n","d">>
OnChatModelStream == <<"o","n","_","c","h","a","t","_","m","o","d","e","l","_","s","t","r","e","a","m">>

\* the emoji of the titles and log lines, each code point one character
Wrench == "WRENCH"
Stopwatch == "STOPWATCH"
VariationSelector == "VS16"
PageFacingUp == "PAGE"

\* f"[dim]{wrench}[/dim] [bold white]{tool_name}[/bold white] [dim]Input[/dim]"
InputTitle(tool_name) ==
    <<"[","d","i","m","]", Wrench>>
        \o <<"[","/","d","i","m","]"," ","[","b","o","l","d"," ","w","h","i","t","e","]">>
        \o Str(tool_name)
        \o <<"[","/","b","o","l","d"," ","w","h","i","t","e","]"," ","[","d","i","m","]","I","n","p","u","t","[","/","d","i","m","]">>

OtherParametersTitle ==
    <<"[","d","i","m","]","O","t","h","e","r"," ","P","a","r","a","m","e","t","e","r","s","[","/","d","i","m","]">>

ResultTitle ==
    <<"[","d","i","m","]","R","e","s","u","l","t","[","/","d","i","m","]">>

LogsTitle ==
    <<"[","d","i","m","]","L","o","g","s","[","/","d","i","m","]">>

ErrorTitle ==
    <<"[","d","i","m"," ","r","e","d","]","E","r","r","o","r","[","/","d","i","m"," ","r","e","d","]">>

(***************************************************************************)
(* Operations on values that may raise                                     *)
(***************************************************************************)

\* getattr(x, name, default)
GetAttr(x, name, default) ==
    IF x.t = "object" /\ HasKey(x, name) THEN Item(x, name) ELSE default

\* hasattr(x, name)
HasAttr(x, name) ==
    x.t = "object" /\ HasKey(x, name)

\* d.get(key, default)
GetDefault(d, key, default) ==
    IF HasKey(d, key) THEN Item(d, key) ELSE default

\* `needle in x` for a str needle: [ok, val]; ~ok stands for TypeError
In(needle, x) ==
    CASE x.t = "dict" -> [ok |-> TRUE, val |-> HasKey(x, needle)]
      [] x.t = "str" -> [ok |-> TRUE, val |-> Contains(x.v, needle)]
      [] x.t \in {"list", "tuple"} ->
            [ok |-> TRUE, val |-> \E i \in 1..Len(x.v) : x.v[i] = PyStr(needle)]
      [] OTHER -> [ok |-> FALSE, val |-> FALSE]

\* {k: v for k, v in d.items() if k != key}
DictWithout(d, key) ==
    LET keep == SelectSeq([i \in 1..Len(d.k) |-> i], LAMBDA i : d.k[i] # key)
    IN  PyDict([j \in 1..Len(keep) |-> d.k[keep[j]]], [j \in 1..Len(keep) |-> d.v[keep[j]]])

\* a >= 0 thousandths, from millionths rounded half to even
RoundMilli(a) ==
    LET q == a \div 1000
        r == a % 1000
    IN  IF r > 500 \/ (r = 500 /\ q % 2 = 1) THEN q + 1 ELSE q

\* f"{x:.3f}": [ok, text, exc]
Format3f(x) ==
    CASE x.t = "float" ->
            [ok |-> TRUE, exc |-> "",
             text |-> (IF x.v < 0 THEN <<"-">> ELSE <<>>)
                        \o NatStr(RoundMilli(Abs(x.v)) \div 1000) \o <<".">>
                        \o Padded(RoundMilli(Abs(x.v)) % 1000, 3)]
      [] x.t = "int" -> [ok |-> TRUE, exc |-> "", text |-> IntStr(x.v) \o <<".", "0", "0", "0">>]
      [] x.t = "bool" ->
            [ok |-> TRUE, exc |-> "", text |-> <<IF x.v THEN "1" ELSE "0">> \o <<".", "0", "0", "0">>]
      [] x.t = "str" -> [ok |-> FALSE, exc |-> "ValueError", text |-> <<>>]
      [] OTHER -> [ok |-> FALSE, exc |-> "TypeError", text |-> <<>>]

\* f" [dim]{stopwatch}  {execution_time:.3f}s[/dim]"
TimeStr(formatted) ==
    <<" ","[","d","i","m","]", Stopwatch, VariationSelector, " ", " ">>
        \o formatted \o <<"s","[","/","d","i","m","]">>

\* a then b: b runs only when a did not raise
Then(a, b) ==
    IF a.raised # "" THEN a ELSE [console |-> a.console \o b.console, raised |-> b.raised]

\* lines 93-119: the tool-input panels, given the title and `"code" in tool_input`
StepInputPanelsOf(tool_name, tool_input, title, has_code) ==
    IF ~Truthy(tool_input) THEN Done(<<>>)
    ELSE IF tool_name = PyStr(ExecuteCode) /\ ~has_code.ok THEN Raise(<<>>, "TypeError")
    ELSE IF tool_name = PyStr(ExecuteCode) /\ has_code.val
    THEN IF tool_input.t # "dict" THEN Raise(<<>>, "TypeError")
         ELSE Done(<<Panel(Markdown(Fenced(LangPython, Str(Item(tool_input, KeyCode)))),
                           title, "dim white")>>
                   \o (IF Truthy(DictWithout(tool_input, KeyCode))
                       THEN <<Panel(_render_content(DictWithout(tool_input, KeyCode)),
                                    OtherParametersTitle, "dim white")>>
                       ELSE <<>>))
    ELSE Done(<<Panel(_render_content(tool_input), title, "dim white")>>)

\* lines 93-119: the tool-input panels
StepInputPanels(tool_name, tool_input) ==
    StepInputPanelsOf(tool_name, tool_input, InputTitle(tool_name), In(KeyCode, tool_input))

\* lines 131-133 with the has_logs test dropped: the Result title always timed
StepResultTitleAlwaysTimed(time_str, has_logs) ==
    ResultTitle \o time_str

\* lines 131-133: the title of the Result panel of an execute_code payload
StepResultTitle(time_str, has_logs) ==
    IF ~has_logs THEN ResultTitle \o time_str ELSE ResultTitle

\* lines 131-162: the Result, Logs and Error panels of an execute_code payload
StepExecutePanels(parsed_json, time_str, has_logs, has_result) ==
    (IF has_result
     THEN <<Panel(_render_content(Item(parsed_json, KeyResult)),
                  StepResultTitle(time_str, has_logs), "dim white")>>
     ELSE <<>>)
    \o (IF has_logs
        THEN <<Panel(_render_content(Item(parsed_json, KeyLogs)), LogsTitle \o time_str,
                     "dim white")>>
        ELSE <<>>)
    \o (IF HasKey(parsed_json, KeyError) /\ Item(parsed_json, KeyError) # PyNone
        THEN <<Panel(_render_content(Item(parsed_json, KeyError)), ErrorTitle, "red")>>
        ELSE <<>>)

\* lines 125-129: time_str, has_logs and has_result; formatted is
\* f"{execution_time:.3f}", which raises for a value that is no number
StepExecuteTimed(parsed_json, execution_time, formatted) ==
    IF execution_time # PyNone /\ ~formatted.ok THEN Raise(<<>>, formatted.exc)
    ELSE Done(StepExecutePanels(
                 parsed_json,
                 IF execution_time # PyNone THEN TimeStr(formatted.text) ELSE <<>>,
                 HasKey(parsed_json, KeyLogs) /\ Truthy(Item(parsed_json, KeyLogs)),
                 HasKey(parsed_json, KeyResult) /\ Item(parsed_json, KeyResult) # PyNone))

\* lines 131-171: the panels of a decoded payload that is truthy
StepParsedPanels(tool_name, parsed_json) ==
    IF tool_name = PyStr(ExecuteCode) /\ parsed_json.t = "dict"
    THEN StepExecuteTimed(parsed_json, Get(parsed_json, KeyExecutionTime),
                        Format3f(Get(parsed_json, KeyExecutionTime)))
    ELSE Done(<<Panel(_render_content(parsed_json), ResultTitle, "dim white")>>)

\* lines 123-180: the panels of a truthy result, given what was extracted
StepExtractedPanels(tool_name, result, parsed_json) ==
    IF Truthy(parsed_json) THEN StepParsedPanels(tool_name, parsed_json)
    ELSE Done(<<Panel(_render_content(result), ResultTitle, "dim white")>>)

\* lines 121-180: the result panels
StepResultPanels(tool_name, result) ==
    IF ~Truthy(result) THEN Done(<<>>)
    ELSE StepExtractedPanels(tool_name, result, _extract_json_from_textcontent(Str(result)))

\* lines 87-180: the pair (action, result)
PrettyPrintPair(action, result) ==
    Then(Then(Done(<<BlankLine>>),
              StepInputPanels(GetAttr(action, AttrTool, PyNone),
                              GetAttr(action, AttrToolInput, PyDict(<<>>, <<>>)))),
         StepResultPanels(GetAttr(action, AttrTool, PyNone), result))

_pretty_print_step(item) ==
    IF item.t = "tuple" /\ Len(item.v) = 2
    THEN PrettyPrintPair(item.v[1], item.v[2])
    ELSE Done(<<Pretty(item)>>)

(***************************************************************************)
(* _log_step                                                               *)
(***************************************************************************)

TruncateOver ==
    100

TruncateKeep ==
    97

Ellipsis ==
    <<".", ".", ".">>

\* s[:n]
Prefix(s, n) ==
    SubSeq(s, 1, IF n < Len(s) THEN n ELSE Len(s))

\* lines 193-194 and 198-199 keeping s[:100] before the ellipsis
TruncateKeepingLimit(s) ==
    IF Len(s) > TruncateOver THEN Prefix(s, TruncateOver) \o Ellipsis ELSE s

\* lines 193-194 and 198-199
Truncate(s) ==
    IF Len(s) > TruncateOver THEN Prefix(s, TruncateKeep) \o Ellipsis ELSE s

\* s.replace("\n", " ")
FlattenNewlines(s) ==
    [i \in 1..Len(s) |-> IF s[i] = "\n" THEN " " ELSE s[i]]

\* the two records of a pair: [tool_input_str, observation_str] and the lines
_log_step(item) ==
    IF item.t = "tuple" /\ Len(item.v) = 2
    THEN LET action == item.v[1]
             result == item.v[2]
             tool_name == GetAttr(action, AttrTool, PyNone)
             tool_input == GetAttr(action, AttrToolInput, PyDict(<<>>, <<>>))
             tool_input_str == Truncate(Str(tool_input))
             observation_str == FlattenNewlines(Truncate(Str(result)))
         IN  <<<<Wrench>> \o <<" ","T","o","o","l"," ","c","a","l","l",":"," ">> \o Str(tool_name)
                   \o <<" ","w","i","t","h"," ","i","n","p","u","t",":"," ">> \o tool_input_str,
               <<PageFacingUp>> \o <<" ","T","o","o","l"," ","r","e","s","u","l","t",":"," ">>
                   \o observation_str>>
    ELSE <<<<"A","g","e","n","t"," ","s","t","e","p",":"," ">> \o Str(item)>>

\* what a presenter that only prints to the console did
Printed(r) ==
    Effects(r.console, <<>>, <<>>, r.raised)

\* what the stream presenter's text branch did
Written(r) ==
    Effects(<<>>, r.written, <<>>, r.raised)

log_agent_step(item, pretty_print) ==
    IF pretty_print
    THEN Printed(_pretty_print_step(item))
    ELSE Effects(<<>>, <<>>, _log_step(item), "")

(***************************************************************************)
(* log_agent_stream                                                        *)
(***************************************************************************)

\* name.split("/")[-1] if "/" in name else name: [ok, val]; ~ok is TypeError
ToolNameOf(name) ==
    IF name.t = "str"
    THEN [ok |-> TRUE,
          val |-> IF Contains(name.v, <<"/">>) THEN PyStr(LastSegment(name.v, "/")) ELSE name]
    ELSE [ok |-> FALSE, val |-> PyNone]

\* lines 237-262: the tool-input panels, given the title and `"code" in tool_input`
StreamInputPanelsOf(tool_name, tool_input, title, has_code) ==
    IF ~Truthy(tool_input) THEN Done(<<>>)
    ELSE IF tool_name = PyStr(ExecuteCode) /\ ~has_code.ok THEN Raise(<<>>, "TypeError")
    ELSE IF tool_name = PyStr(ExecuteCode) /\ has_code.val
    THEN IF tool_input.t # "dict" THEN Raise(<<>>, "TypeError")
         ELSE Done(<<Panel(Markdown(Fenced(LangPython, Str(Item(tool_input, KeyCode)))),
                           title, "dim white")>>
                   \o (IF Truthy(DictWithout(tool_input, KeyCode))
                       THEN <<Panel(_render_content(DictWithout(tool_input, KeyCode)),
                                    OtherParametersTitle, "dim white")>>
                       ELSE <<>>))
    ELSE Done(<<Panel(_render_content(tool_input), title, "dim white")>>)

\* lines 237-262: the tool-input panels
StreamInputPanels(tool_name, tool_input) ==
    StreamInputPanelsOf(tool_name, tool_input, InputTitle(tool_name), In(KeyCode, tool_input))

\* lines 233-262: on_tool_start, given the tool name derived from `name`
ToolStarted(tool_input, tool_name) ==
    IF ~tool_name.ok THEN Raise(<<>>, "TypeError")
    ELSE Then(Done(<<BlankLine>>), StreamInputPanels(tool_name.val, tool_input))

\* lines 233-262: on_tool_start
OnToolStartEvent(event_data, name) ==
    ToolStarted(GetDefault(event_data, KeyInput, PyDict(<<>>, <<>>)), ToolNameOf(name))

\* whether a content item carries a text (lines 278-280)
CarriesText(item) ==
    HasAttr(item, KeyText) \/ (item.t = "dict" /\ HasKey(item, KeyText))

\* lines 276-281: the texts of the content items that carry one
TextContents(content) ==
    LET at == SelectSeq([i \in 1..Len(content.v) |-> i], LAMBDA i : CarriesText(content.v[i]))
    IN  [j \in 1..Len(at) |-> Item(content.v[at[j]], KeyText)]

\* lines 282-285: the output string of a non-empty content list
JoinedTexts(content, text_contents) ==
    IF Len(text_contents) > 0
    THEN IF Len(text_contents) = 1 THEN text_contents[1]
         ELSE PyStr(Str(PyList(text_contents)))
    ELSE PyStr(Str(content))

\* lines 272-289: the output string of an output with a content attribute
ContentStr(content) ==
    IF content.t = "list" /\ Truthy(content) THEN JoinedTexts(content, TextContents(content))
    ELSE IF content.t = "str" THEN content
    ELSE PyStr(Str(content))

\* lines 270-293: the output string of an on_tool_end event
OutputStr(output) ==
    IF HasAttr(output, KeyContent) THEN ContentStr(Item(output, KeyContent))
    ELSE IF output.t = "dict" /\ HasKey(output, KeyContent)
    THEN PyStr(Str(Item(output, KeyContent)))
    ELSE PyStr(Str(output))

\* lines 305-307 with the test inverted: the Result title timed when Logs is shown
StreamResultTitleInverted(time_str, has_logs) ==
    IF has_logs THEN ResultTitle \o time_str ELSE ResultTitle

\* lines 305-307: the title of the Result panel of an execute_code payload
StreamResultTitle(time_str, has_logs) ==
    IF ~has_logs THEN ResultTitle \o time_str ELSE ResultTitle

\* lines 305-336: the Result, Logs and Error panels of an execute_code payload
StreamExecutePanels(parsed_json, time_str, has_logs, has_result) ==
    (IF has_result
     THEN <<Panel(_render_content(Item(parsed_json, KeyResult)),
                  StreamResultTitle(time_str, has_logs), "dim white")>>
     ELSE <<>>)
    \o (IF has_logs
        THEN <<Panel(_render_content(Item(parsed_json, KeyLogs)), LogsTitle \o time_str,
                     "dim white")>>
        ELSE <<>>)
    \o (IF HasKey(parsed_json, KeyError) /\ Item(parsed_json, KeyError) # PyNone
        THEN <<Panel(_render_content(Item(parsed_json, KeyError)), ErrorTitle, "red")>>
        ELSE <<>>)

\* lines 299-303: time_str, has_logs and has_result; formatted is
\* f"{execution_time:.3f}", which raises for a value that is no number
StreamExecuteTimed(parsed_json, execution_time, formatted) ==
    IF execution_time # PyNone /\ ~formatted.ok THEN Raise(<<>>, formatted.exc)
    ELSE Done(StreamExecutePanels(
                 parsed_json,
                 IF execution_time # PyNone THEN TimeStr(formatted.text) ELSE <<>>,
                 HasKey(parsed_json, KeyLogs) /\ Truthy(Item(parsed_json, KeyLogs)),
                 HasKey(parsed_json, KeyResult) /\ Item(parsed_json, KeyResult) # PyNone))

\* lines 305-345: the panels of a decoded payload that is truthy
StreamParsedPanels(tool_name, parsed_json) ==
    IF tool_name = PyStr(ExecuteCode) /\ parsed_json.t = "dict"
    THEN StreamExecuteTimed(parsed_json, Get(parsed_json, KeyExecutionTime),
                        Format3f(Get(parsed_json, KeyExecutionTime)))
    ELSE Done(<<Panel(_render_content(parsed_json), ResultTitle, "dim white")>>)

\* lines 296-354: the panels, given what was extracted and the tool name
StreamExtractedPanels(tool_name, output_str, parsed_json) ==
    IF Truthy(parsed_json)
    THEN IF ~tool_name.ok THEN Raise(<<>>, "TypeError")
         ELSE StreamParsedPanels(tool_name.val, parsed_json)
    ELSE Done(<<Panel(_render_content(output_str), ResultTitle, "dim white")>>)

\* lines 295-354: the panels of an output string
OutputPanels(name, output_str) ==
    StreamExtractedPanels(ToolNameOf(name), output_str,
                          IF Truthy(output_str)
                          THEN _extract_json_from_textcontent(Str(output_str))
                          ELSE PyNone)

\* lines 265-354: on_tool_end
OnToolEndEvent(event_data, name) ==
    IF ~Truthy(GetDefault(event_data, KeyOutput, PyStr(<<>>))) THEN Done(<<>>)
    ELSE OutputPanels(name, OutputStr(GetDefault(event_data, KeyOutput, PyStr(<<>>))))

\* the items `for item in content` visits: [ok, items]; ~ok is TypeError
Iterate(content) ==
    CASE content.t \in {"list", "tuple"} -> [ok |-> TRUE, items |-> content.v]
      [] content.t = "str" -> [ok |-> TRUE, items |-> [i \in 1..Len(content.v) |-> PyStr(<<content.v[i]>>)]]
      [] content.t = "dict" -> [ok |-> TRUE, items |-> [i \in 1..Len(content.k) |-> PyStr(content.k[i])]]
      [] OTHER -> [ok |-> FALSE, items |-> <<>>]

\* line 371 with the type test dropped
CollectsTextIgnoringType(item) ==
    In(KeyText, item).val

\* line 371: whether the item's text is collected (the item passed `"text" in item`)
CollectsText(item) ==
    In(KeyText, item).val /\ Get(item, KeyType) # PyStr(InputJsonDelta)

\* lines 369-372: the loop over the items, from text_parts: [raised, text_parts]
RECURSIVE CollectTextParts(_, _)
CollectTextParts(items, text_parts) ==
    IF items = <<>> THEN [raised |-> "", text_parts |-> text_parts]
    ELSE IF ~In(KeyText, Head(items)).ok THEN [raised |-> "TypeError", text_parts |-> text_parts]
    ELSE IF In(KeyText, Head(items)).val /\ Head(items).t # "dict"
    THEN [raised |-> "AttributeError", text_parts |-> text_parts]
    ELSE CollectTextParts(Tail(items),
                          IF CollectsText(Head(items))
                          THEN Append(text_parts, Item(Head(items), KeyText))
                          ELSE text_parts)

\* lines 375-378: join the parts and print the text
PrintText(collected) ==
    IF collected.raised # "" THEN [written |-> <<>>, raised |-> collected.raised]
    ELSE IF \E i \in 1..Len(collected.text_parts) : collected.text_parts[i].t # "str"
    THEN [written |-> <<>>, raised |-> "TypeError"]
    ELSE [written |-> Join([i \in 1..Len(collected.text_parts) |-> collected.text_parts[i].v]),
          raised |-> ""]

\* lines 367-378: the content of a chunk
StreamContent(content, iter) ==
    IF content = PyNone THEN [written |-> <<>>, raised |-> ""]
    ELSE IF ~iter.ok THEN [written |-> <<>>, raised |-> "TypeError"]
    ELSE PrintText(CollectTextParts(iter.items, <<>>))

\* lines 359-378: the chunk object
StreamChunk(chunk_obj) ==
    IF chunk_obj = PyNone THEN [written |-> <<>>, raised |-> ""]
    ELSE StreamContent(GetAttr(chunk_obj, KeyContent, PyNone),
                       Iterate(GetAttr(chunk_obj, KeyContent, PyNone)))

\* lines 357-378: on_chat_model_stream; [written, raised]
OnChatModelStreamEvent(event_data) ==
    StreamChunk(Get(event_data, KeyChunk))

\* lines 229-378: the event kinds
HandleEvent(event_type, event_data, name) ==
    IF event_type = PyStr(OnToolStart) THEN Printed(OnToolStartEvent(event_data, name))
    ELSE IF event_type = PyStr(OnToolEnd) THEN Printed(OnToolEndEvent(event_data, name))
    ELSE IF event_type = PyStr(OnChatModelStream) THEN Written(OnChatModelStreamEvent(event_data))
    ELSE NoEffects

log_agent_stream(chunk, pretty_print) ==
    IF ~pretty_print THEN NoEffects
    ELSE HandleEvent(Get(chunk, KeyEvent),
                     GetDefault(chunk, KeyData, PyDict(<<>>, <<>>)),
                     GetDefault(chunk, KeyName, PyStr(<<>>)))

(***************************************************************************)
(* The callers' inputs: steps and tool events                              *)
(***************************************************************************)

PayloadResultTime ==
    <<"{","\"","r","e","s","u","l","t","\"",":"," ","5",","," ","\"","l","o","g","s","\"",":"," ","\"","\"",","," ","\"","e","x","e","c","u","t","i","o","n","_","t","i","m","e","\"",":"," ","0",".","0","0","2","}">>

PayloadLogsError ==
    <<"{","\"","r","e","s","u","l","t","\"",":"," ","n","u","l","l",","," ","\"","l","o","g","s","\"",":"," ","\"","r","a","n","\"",","," ","\"","e","r","r","o","r","\"",":"," ","\"","b","o","o","m","\"","}">>

PayloadAll ==
    <<"{","\"","r","e","s","u","l","t","\"",":"," ","1",","," ","\"","l","o","g","s","\"",":"," ","\"","l","\"",","," ","\"","e","r","r","o","r","\"",":"," ","\"","e","\"",","," ","\"","e","x","e","c","u","t","i","o","n","_","t","i","m","e","\"",":"," ","1",".","2","3","4","6","}">>

PayloadTimeOnly ==
    <<"{","\"","e","x","e","c","u","t","i","o","n","_","t","i","m","e","\"",":"," ","0",".","5","}">>

PayloadTimeText ==
    <<"{","\"","e","x","e","c","u","t","i","o","n","_","t","i","m","e","\"",":"," ","\"","f","a","s","t","\"",","," ","\"","r","e","s","u","l","t","\"",":"," ","1","}">>

PayloadTimeNull ==
    <<"{","\"","e","x","e","c","u","t","i","o","n","_","t","i","m","e","\"",":"," ","n","u","l","l",","," ","\"","l","o","g","s","\"",":"," ","\"","x","\"","}">>

PayloadLogsTime ==
    <<"{","\"","l","o","g","s","\"",":"," ","\"","x","\"",","," ","\"","e","x","e","c","u","t","i","o","n","_","t","i","m","e","\"",":"," ","2","}">>

PayloadResultNullError ==
    <<"{","\"","r","e","s","u","l","t","\"",":"," ","1",","," ","\"","e","r","r","o","r","\"",":"," ","n","u","l","l","}">>

PayloadOther ==
    <<"{","\"","a","\"",":"," ","\"","i","t","'","s","\"","}">>

PayloadEmptyDict ==
    <<"{","}">>

PayloadEmptyList ==
    <<"[","]">>

PayloadZero ==
    <<"0">>

PayloadFalse ==
    <<"f","a","l","s","e">>

PayloadEmptyStr ==
    <<"\"","\"">>

PayloadNull ==
    <<"n","u","l","l">>

PayloadList ==
    <<"[","1","]">>

PayloadBad ==
    <<"{","b","a","d">>

Payloads ==
    {PayloadResultTime,
     PayloadLogsError,
     PayloadAll,
     PayloadTimeOnly,
     PayloadTimeText,
     PayloadTimeNull,
     PayloadLogsTime,
     PayloadResultNullError,
     PayloadOther,
     PayloadEmptyDict,
     PayloadEmptyList,
     PayloadZero,
     PayloadFalse,
     PayloadEmptyStr,
     PayloadNull,
     PayloadList,
     PayloadBad}

TextContentOpen ==
    <<"[","T","e","x","t","C","o","n","t","e","n","t","(","t","y","p","e","=","'","t","e","x","t","'",","," ","t","e","x","t","=","'">>

TextContentClose ==
    <<"'",","," ","a","n","n","o","t","a","t","i","o","n","s","=","N","o","n","e",")","]">>

\* what str() of the upstream result makes of text P: backslashes doubled and
\* single quotes escaped (the escaping lines 28-30 undo)
EscapeText(P) ==
    Replace(Replace(P, <<"\\">>, <<"\\", "\\">>), <<"'">>, <<"\\", "'">>)

\* the string form of a tool result that carries the text P
TextContentResult(P) ==
    TextContentOpen \o EscapeText(P) \o TextContentClose

\* the result of a step, and the str output of an on_tool_end event
Results ==
    {PyStr(<<>>), PyStr(<<"o", "k">>)} \cup {PyStr(TextContentResult(P)) : P \in Payloads}

\* results that are not str
OtherResults ==
    {PyNone, PyDict(<<<<"a">>>>, <<PyInt(1)>>)}

\* a ToolMessage-like output whose content is `content`
ToolMessage(content) ==
    PyObject(<<KeyContent>>, <<content>>)

\* outputs of on_tool_end that are not str
OtherOutputs ==
    {ToolMessage(PyStr(TextContentResult(PayloadAll))),
     ToolMessage(PyStr(PayloadLogsError)),
     ToolMessage(PyList(<<PyObject(<<KeyText>>, <<PyStr(TextContentResult(PayloadAll))>>)>>)),
     ToolMessage(PyList(<<PyDict(<<KeyText>>, <<PyStr(<<"a">>)>>),
                          PyDict(<<KeyText>>, <<PyStr(<<"b">>)>>)>>)),
     ToolMessage(PyList(<<>>)),
     PyDict(<<KeyContent>>, <<PyStr(TextContentResult(PayloadTimeOnly))>>)}

Search ==
    <<"s","e","a","r","c","h">>

\* the `tool` attribute of an action; PyNone stands for an action without one
ToolNames ==
    {PyNone, PyStr(ExecuteCode), PyStr(Search)}

\* the `name` of a tool event
EventNames ==
    {PyStr(ExecuteCode), PyStr(<<"m","c","p","/">> \o ExecuteCode), PyStr(Search), PyNone}

\* tool inputs: mappings, and the str and int inputs an agent may pass
ToolInputs ==
    {PyDict(<<>>, <<>>),
     PyDict(<<KeyCode>>, <<PyStr(<<"p","r","i","n","t","(","1",")">>)>>),
     PyDict(<<KeyCode, <<"t","i","m","e","o","u","t">>>>, <<PyStr(<<"x">>), PyInt(5)>>),
     PyDict(<<<<"q">>>>, <<PyStr(<<"a">>)>>),
     PyStr(<<"r","u","n"," ","c","o","d","e">>),
     PyInt(5)}

\* an AgentAction
Action(tool, tool_input) ==
    IF tool = PyNone
    THEN PyObject(<<AttrToolInput>>, <<tool_input>>)
    ELSE PyObject(<<AttrTool, AttrToolInput>>, <<tool, tool_input>>)

\* the (action, result) pairs, and items that are no pair
Steps ==
    {PyTuple(<<Action(tool, tool_input), result>>) :
        tool \in ToolNames, tool_input \in ToolInputs, result \in Results \cup OtherResults}
        \cup {PyStr(<<"d","o","n","e">>), PyTuple(<<PyInt(1), PyInt(2), PyInt(3)>>)}

\* an event of astream_events
Event(event, name, data) ==
    PyDict(<<KeyEvent, KeyName, KeyData>>, <<PyStr(event), name, data>>)

ToolStartEvents ==
    {Event(OnToolStart, name, PyDict(<<KeyInput>>, <<tool_input>>)) :
        name \in EventNames, tool_input \in ToolInputs}

\* events of other kinds, which log_agent_stream ignores
OtherEvents ==
    {Event(<<"o","n","_","c","h","a","i","n","_","s","t","a","r","t">>, PyStr(Search),
           PyDict(<<KeyInput>>, <<PyInt(5)>>))}

ToolEndEvent(name, output) ==
    Event(OnToolEnd, name, PyDict(<<KeyOutput>>, <<output>>))

(***************************************************************************)
(* The presenter as a state machine.  A call is two steps: the caller      *)
(* passes the argument (a new run of output begins), then the handler runs *)
(* to its end or to an exception.  arg holds the arguments of the calls of *)
(* the current run; console, stdout and logged hold what they wrote.       *)
(***************************************************************************)

Init ==
    /\ pc = "idle"
    /\ arg = <<>>
    /\ console = <<>>
    /\ stdout = <<>>
    /\ logged = <<>>
    /\ ret = PyNone
    /\ raised = ""

\* no call is under way
Returned ==
    pc \in {"idle", "done"}

\* a call with the first argument of a run
Call(op, x) ==
    /\ Returned
    /\ pc' = op
    /\ arg' = <<x>>
    /\ console' = <<>>
    /\ stdout' = <<>>
    /\ logged' = <<>>
    /\ ret' = PyNone
    /\ raised' = ""

\* the handler's effects on the output streams
Apply(e) ==
    /\ console' = console \o e.console
    /\ stdout' = stdout \o e.stdout
    /\ logged' = logged \o e.logged
    /\ raised' = e.raised
    /\ pc' = "done"
    /\ UNCHANGED <<arg, ret>>

\* the agent passes a step to log_agent_step(item, pretty_print=True)
CallLogAgentStep(item) ==
    Call("log_agent_step", item)

LogAgentStep ==
    /\ pc = "log_agent_step"
    /\ Apply(log_agent_step(arg[Len(arg)], TRUE))

\* astream_events yields an on_tool_start event, or one of another kind
EmitEvent(chunk) ==
    Call("log_agent_stream", chunk)

\* the run of the last event is a tool run that has started and not ended
ToolRunning ==
    /\ pc = "done"
    /\ raised = ""
    /\ Len(arg) = 1
    /\ arg[1].t = "dict"
    /\ Get(arg[1], KeyEvent) = PyStr(OnToolStart)

\* astream_events yields the on_tool_end event of the running tool
EmitToolEnd(output) ==
    /\ ToolRunning
    /\ pc' = "log_agent_stream"
    /\ arg' = Append(arg, ToolEndEvent(Get(arg[1], KeyName), output))
    /\ UNCHANGED <<console, stdout, logged, ret, raised>>

LogAgentStream ==
    /\ pc = "log_agent_stream"
    /\ Apply(log_agent_stream(arg[Len(arg)], TRUE))

Next ==
    \/ \E item \in Steps : CallLogAgentStep(item)
    \/ LogAgentStep
    \/ \E chunk \in ToolStartEvents \cup OtherEvents : EmitEvent(chunk)
    \/ \E output \in Results \cup OtherOutputs : EmitToolEnd(output)
    \/ LogAgentStream

Spec ==
    Init /\ [][Next]_vars

(***************************************************************************)
(* The run a state is about                                                *)
(***************************************************************************)

\* _pretty_print_step has returned from (or raised on) an (action, result) pair
RunIsStep ==
    /\ pc = "done"
    /\ Len(arg) = 1
    /\ arg[1].t = "tuple"
    /\ Len(arg[1].v) = 2

\* log_agent_stream has returned from (or raised on) the on_tool_end of a tool run
RunIsToolEnd ==
    /\ pc = "done"
    /\ Len(arg) = 2

\* the tool name of the run
RunTool ==
    IF RunIsStep THEN GetAttr(arg[1].v[1], AttrTool, PyNone)
    ELSE ToolNameOf(Get(arg[2], KeyName)).val

\* the tool input of the run
RunToolInput ==
    IF RunIsStep THEN GetAttr(arg[1].v[1], AttrToolInput, PyDict(<<>>, <<>>))
    ELSE Get(Get(arg[1], KeyData), KeyInput)

\* the result as the caller passed it: the step's result, the event's output
RunOutput ==
    IF RunIsStep THEN arg[1].v[2] ELSE Get(Get(arg[2], KeyData), KeyOutput)

\* the result the panels are made from: the step's result, the event's output string
RunResult ==
    IF RunIsStep THEN arg[1].v[2] ELSE OutputStr(RunOutput)

\* the decode of the payload embedded in the string form of x: [ok, val]
DecodeOf(found, text) ==
    IF found THEN JsonLoads(Unescape(text)) ELSE JsonFail

Decoding(x) ==
    DecodeOf(SearchTextPattern(Str(x)).found, SearchTextPattern(Str(x)).group1)

\* a run with a non-empty result
ResultRun ==
    (RunIsStep \/ RunIsToolEnd) /\ Truthy(RunOutput)

\* an execute_code run whose result decodes to a mapping
ExecuteRun ==
    /\ ResultRun
    /\ RunTool = PyStr(ExecuteCode)
    /\ Decoding(RunResult).ok
    /\ Decoding(RunResult).val.t = "dict"

\* "Result", "Logs" or "Error" for a result-related panel, "" for any other output
Label(o) ==
    IF o.kind # "panel" THEN ""
    ELSE IF StartsWith(o.title, ResultTitle) THEN "Result"
    ELSE IF StartsWith(o.title, LogsTitle) THEN "Logs"
    ELSE IF StartsWith(o.title, ErrorTitle) THEN "Error"
    ELSE ""

\* the result-related panels on the console, in order
ResultPanels ==
    SelectSeq(console, LAMBDA o : Label(o) # "")

Labels(panels) ==
    [i \in 1..Len(panels) |-> Label(panels[i])]

\* the panels C2 states for the mapping d
StatedLabels(d) ==
    (IF HasKey(d, KeyResult) /\ Item(d, KeyResult) # PyNone THEN <<"Result">> ELSE <<>>)
    \o (IF HasKey(d, KeyLogs) /\ Truthy(Item(d, KeyLogs)) THEN <<"Logs">> ELSE <<>>)
    \o (IF HasKey(d, KeyError) /\ Item(d, KeyError) # PyNone THEN <<"Error">> ELSE <<>>)

(***************************************************************************)
(* Claims about the step and tool-event presenters (Spec)                  *)
(***************************************************************************)

\* C2: for an execute_code step whose result decodes to a mapping, the panels
\* emitted for the result are Result iff `result` is present and non-null, then
\* Logs iff `logs` is present and non-empty, then Error (red border) iff `error`
\* is present and non-null.
C2_PanelsFollowFields ==
    ExecuteRun =>
        /\ Labels(ResultPanels) = StatedLabels(Decoding(RunResult).val)
        /\ \A i \in 1..Len(ResultPanels) :
              (Label(ResultPanels[i]) = "Error") <=> (ResultPanels[i].border_style = "red")

\* the execution-time suffix the titles carry for the time t
Suffix(t) ==
    TimeStr(Format3f(t).text)

\* whether a title ends in an execution-time suffix
HasSuffix(title) ==
    Contains(title, <<Stopwatch>>)

\* the placement C3 states, for the time t of the payload
SuffixPlacement(t) ==
    /\ \A i \in 1..Len(ResultPanels) :
          LET o == ResultPanels[i]
              logs_emitted == \E j \in 1..Len(ResultPanels) : Label(ResultPanels[j]) = "Logs"
          IN  CASE Label(o) = "Logs" -> o.title = LogsTitle \o Suffix(t)
                [] Label(o) = "Result" ->
                      o.title = IF logs_emitted THEN ResultTitle ELSE ResultTitle \o Suffix(t)
                [] OTHER -> o.title = ErrorTitle
    /\ Cardinality({i \in 1..Len(ResultPanels) : HasSuffix(ResultPanels[i].title)}) <= 1

\* C3 as stated: for an execute_code result that decodes to a mapping with
\* `execution_time` present, the suffix is on the Logs title whenever a Logs
\* panel is emitted, on the Result title only when no Logs panel is, on at most
\* one title, and never on the Error title.
C3_SuffixWhenPresent ==
    (ExecuteRun /\ HasKey(Decoding(RunResult).val, KeyExecutionTime)) =>
        SuffixPlacement(Item(Decoding(RunResult).val, KeyExecutionTime))

\* C3 amended: the same, for an `execution_time` that is present and not null.
C3_SuffixWhenNotNull ==
    (ExecuteRun /\ Get(Decoding(RunResult).val, KeyExecutionTime) # PyNone) =>
        SuffixPlacement(Item(Decoding(RunResult).val, KeyExecutionTime))

\* a run that showed Result without the suffix and Logs with it
C3_Witness ==
    /\ ExecuteRun
    /\ Get(Decoding(RunResult).val, KeyExecutionTime) # PyNone
    /\ raised = ""
    /\ \E i, j \in 1..Len(ResultPanels) :
          /\ ResultPanels[i].title = ResultTitle
          /\ Label(ResultPanels[j]) = "Logs"
          /\ HasSuffix(ResultPanels[j].title)

\* C4: no call of log_agent_step or log_agent_stream surfaces an exception.
C4_NoExceptionSurfaces ==
    raised = ""

\* C8: when the payload of a non-empty result decodes and the case is not
\* execute_code with a mapping, the decoded payload is rendered under a single
\* Result panel; the raw result is rendered only when extraction fails.
C8_DecodedPayloadRendered ==
    (ResultRun /\ ~ExecuteRun) =>
        ResultPanels =
            <<Panel(_render_content(IF Decoding(RunResult).ok
                                    THEN Decoding(RunResult).val
                                    ELSE RunResult),
                    ResultTitle, "dim white")>>

\* C9: an on_tool_start event with input I followed by the on_tool_end event
\* with the str output R puts on the console what _pretty_print_step puts
\* there for the step (action with the event's tool name and I, R), and ends
\* the same way.
C9_StreamRefinesStep ==
    (RunIsToolEnd /\ RunOutput.t = "str") =>
        /\ console = _pretty_print_step(PyTuple(<<Action(RunTool, RunToolInput), RunOutput>>)).console
        /\ raised = _pretty_print_step(PyTuple(<<Action(RunTool, RunToolInput), RunOutput>>)).raised

\* a tool run of execute_code with code and another parameter that showed the
\* input panels and the Result, Logs and Error panels
C9_Witness ==
    /\ RunIsToolEnd
    /\ RunOutput.t = "str"
    /\ RunTool = PyStr(ExecuteCode)
    /\ Len(console) = 6
    /\ Labels(ResultPanels) = <<"Result", "Logs", "Error">>

\* C10: a non-empty result is never silently dropped: every step with a
\* non-empty result, and every on_tool_end event with a non-empty output, puts
\* at least one Result, Logs or Error panel on the console.
C10_ResultNeverDropped ==
    ResultRun => Len(ResultPanels) >= 1

(***************************************************************************)
(* The extractor on its own (SpecExtract)                                  *)
(***************************************************************************)

\* the longest body, in units, of the JSON strings embedded
MaxBody == 2

\* the most whitespace characters between the comma and `annotations=`
MaxGap == 1

\* what a JSON string is made of here: a letter, a single quote, an escaped
\* backslash and an escaped double quote
BodyUnits ==
    {<<"a">>, <<"'">>, <<"\\", "\\">>, <<"\\", "\"">>}

RECURSIVE Bodies(_)
Bodies(n) ==
    IF n = 0 THEN {<<>>}
    ELSE Bodies(n - 1) \cup {b \o u : b \in Bodies(n - 1), u \in BodyUnits}

\* the JSON text of a string with the given body, bare, as a member, as an
\* element, and in an object left open (not JSON)
Wrapped(kind, body) ==
    CASE kind = "string" -> <<"\"">> \o body \o <<"\"">>
      [] kind = "object" -> <<"{", "\"", "k", "\"", ":", " ", "\"">> \o body \o <<"\"", "}">>
      [] kind = "array" -> <<"[", "\"">> \o body \o <<"\"", ",", " ", "1", "]">>
      [] OTHER -> <<"{", "\"", "k", "\"", ":", " ", "\"">> \o body \o <<"\"">>

\* the texts embedded: JSON texts, and texts that are not JSON
EmbeddedTexts ==
    Payloads
    \cup {Wrapped(kind, body) : kind \in {"string", "object", "array", "open"},
                                body \in Bodies(MaxBody)}

\* the whitespace the pattern allows between the comma and `annotations=`
Gaps ==
    UNION {[1..n -> {" ", "\n"}] : n \in 0..MaxGap}

\* what precedes `text='` in the result string
Prefixes ==
    {<<>>, <<"[","T","e","x","t","C","o","n","t","e","n","t","(","t","y","p","e","=","'","t","e","x","t","'",","," ">>}

\* the result string that embeds the text P: text='<escaped P>', annotations=None)]
Embedded(prefix, P, gap) ==
    prefix \o TextOpen \o EscapeText(P) \o <<"'", ",">> \o gap \o AnnotationsEq
        \o <<"N","o","n","e",")","]">>

\* the spec's first example: text='{"a": 1}', annotations=None
ExampleMapping ==
    <<"t", "e", "x", "t", "=", "'", "{", "\"", "a", "\"", ":", " ", "1", "}", "'", ",", " ", "a", "n", "n", "o", "t", "a", "t", "i", "o", "n", "s", "=", "N", "o", "n", "e">>

\* the spec's second example as it is written, with two backslashes before the quote
ExampleTwoBackslashes ==
    <<"t", "e", "x", "t", "=", "'", "{", "\"", "a", "\"", ":", " ", "\"", "i", "t", "\\", "\\", "'", "s", " ", "o", "k", "\"", "}", "'", ",", " ", "a", "n", "n", "o", "t", "a", "t", "i", "o", "n", "s", "=", "N", "o", "n", "e">>

\* the embedding of {"a": "it's ok"}: one backslash before the quote
ExampleEscapedQuote ==
    <<"t", "e", "x", "t", "=", "'", "{", "\"", "a", "\"", ":", " ", "\"", "i", "t", "\\", "'", "s", " ", "o", "k", "\"", "}", "'", ",", " ", "a", "n", "n", "o", "t", "a", "t", "i", "o", "n", "s", "=", "N", "o", "n", "e">>

\* strings the pattern does not occur in
NoPattern ==
    {<<>>,
     <<"o", "k">>,
     TextOpen \o <<"1", "'">>,
     <<"'", ",", " ">> \o AnnotationsEq \o <<"N","o","n","e">>,
     <<"t","e","x","t","=","1",","," ">> \o AnnotationsEq}

\* a call of the extractor on the embedding of P; arg[2] keeps P
CallOnEmbedded(prefix, P, gap) ==
    /\ pc = "idle"
    /\ pc' = "_extract_json_from_textcontent"
    /\ arg' = <<PyStr(Embedded(prefix, P, gap)), PyStr(P)>>
    /\ ret' = PyNone
    /\ UNCHANGED <<console, stdout, logged, raised>>

\* a call of the extractor on any other string
CallOnString(result_str) ==
    /\ pc = "idle"
    /\ pc' = "_extract_json_from_textcontent"
    /\ arg' = <<PyStr(result_str)>>
    /\ ret' = PyNone
    /\ UNCHANGED <<console, stdout, logged, raised>>

\* lines 17-36: the extractor runs and returns
Extract ==
    /\ pc = "_extract_json_from_textcontent"
    /\ ret' = _extract_json_from_textcontent(arg[1].v)
    /\ pc' = "done"
    /\ UNCHANGED <<arg, console, stdout, logged, raised>>

NextExtract ==
    \/ \E prefix \in Prefixes, P \in EmbeddedTexts, gap \in Gaps :
          CallOnEmbedded(prefix, P, gap)
    \/ \E result_str \in NoPattern \cup {ExampleMapping, ExampleTwoBackslashes, ExampleEscapedQuote} :
          CallOnString(result_str)
    \/ Extract

SpecExtract == Init /\ [][NextExtract]_vars

\* the extractor has returned from a call on the embedding of arg[2]
ExtractedEmbedded ==
    pc = "done" /\ Len(arg) = 2 /\ arg[1].t = "str" /\ arg[2].t = "str"

\* the extractor has returned from a call on the string s
Extracted(s) ==
    pc = "done" /\ arg = <<PyStr(s)>>

\* {"a": "it's ok"}
ItsOk ==
    PyDict(<<<<"a">>>>, <<PyStr(<<"i", "t", "'", "s", " ", "o", "k">>)>>)

\* the part of C5 that is a rule: the extractor returns what the embedded
\* text decodes to, None when it does not decode or the pattern is not found,
\* and {"a": 1} on the spec's first example
RoundTrip ==
    /\ ExtractedEmbedded =>
          ret = IF JsonLoads(arg[2].v).ok THEN JsonLoads(arg[2].v).val ELSE PyNone
    /\ \A s \in NoPattern : Extracted(s) => ret = PyNone
    /\ Extracted(ExampleMapping) => ret = PyDict(<<<<"a">>>>, <<PyInt(1)>>)

\* C5 as stated: for every JSON text P, the extractor on the embedding of the
\* escaped P returns the value P decodes to, and None when the pattern is not
\* found or the decode fails; on text='{"a": "it\\'s ok"}', annotations=None,
\* spelt with two backslashes, it yields {"a": "it's ok"}.
C5_RoundTripAsStated ==
    /\ RoundTrip
    /\ Extracted(ExampleTwoBackslashes) => ret = ItsOk

\* C5 amended: the same rule, and {"a": "it's ok"} is what the extractor
\* yields on the embedding with one backslash before the quote.
C5_RoundTrip ==
    /\ RoundTrip
    /\ Extracted(ExampleEscapedQuote) => ret = ItsOk

\* the extractor returned a mapping whose value holds a quote and a backslash
C5_Witness ==
    /\ ExtractedEmbedded
    /\ arg[2].v = Wrapped("object", <<"'", "\\", "\\">>)
    /\ ret = PyDict(<<<<"k">>>>, <<PyStr(<<"'", "\\">>)>>)

(***************************************************************************)
(* The content renderer on its own (SpecRender)                            *)
(***************************************************************************)

\* the most items of a rendered list or dict
MaxItems == 2

\* what the rendered containers hold; the bytes value, and the list that holds
\* one, are what json.dumps does not encode
Elements ==
    {PyNone, PyBool(TRUE), PyInt(1), PyFloat(1500000), PyStr(<<"a", "\"">>),
     PyList(<<>>), PyDict(<<<<"n">>>>, <<PyInt(2)>>),
     PyBytes(<<"b">>), PyList(<<PyBytes(<<"b">>)>>)}

\* the key of the i-th item of a rendered dict
ItemKey(i) ==
    <<"k">> \o NatStr(i)

Lists ==
    UNION {{PyList(v) : v \in [1..n -> Elements]} : n \in 0..MaxItems}

Dicts ==
    UNION {{PyDict([i \in 1..n |-> ItemKey(i)], v) : v \in [1..n -> Elements]} : n \in 0..MaxItems}

\* contents that are neither dict nor list, one for each later rule
OtherContents ==
    {PyNone,
     PyInt(7),
     PyStr(<<"{", "\"", "a", "\"", ":", "1", "}">>),
     PyStr(<<"#", " ", "T">>),
     PyStr(<<"d", "e", "f", " ", "f", "(", ")", ":", "\n", " ", "x">>),
     PyStr(<<"c", "o", "n", "s", "t", " ", "a", "\n", "b">>),
     PyStr(<<"p", "l", "a", "i", "n">>),
     PyTuple(<<PyInt(1), PyInt(2)>>)}

CallRender(content) ==
    /\ pc = "idle"
    /\ pc' = "_render_content"
    /\ arg' = <<content>>
    /\ UNCHANGED <<console, stdout, logged, ret, raised>>

\* lines 39-81: the renderer runs and returns
Render ==
    /\ pc = "_render_content"
    /\ ret' = _render_content(arg[1])
    /\ pc' = "done"
    /\ UNCHANGED <<arg, console, stdout, logged, raised>>

NextRender ==
    \/ \E content \in Lists \cup Dicts \cup OtherContents : CallRender(content)
    \/ Render

SpecRender == Init /\ [][NextRender]_vars

\* the renderer has returned from a call on a dict or a list
RenderedContainer ==
    pc = "done" /\ Len(arg) = 1 /\ arg[1].t \in {"dict", "list"}

JsonFenceOpen ==
    Fence \o <<"j", "s", "o", "n", "\n">>

JsonFenceClose ==
    <<"\n">> \o Fence

\* whether the markup is a JSON code fence
IsJsonFence(markup) ==
    /\ Len(markup) >= Len(JsonFenceOpen) + Len(JsonFenceClose)
    /\ StartsWith(markup, JsonFenceOpen)
    /\ From(markup, Len(markup) - Len(JsonFenceClose) + 1) = JsonFenceClose

\* what the fence encloses
Enclosed(markup) ==
    SubSeq(markup, Len(JsonFenceOpen) + 1, Len(markup) - Len(JsonFenceClose))

\* whether text is JSON for the container x, its first item on a line of its
\* own behind two spaces
IsIndentedJsonOf(text, x) ==
    /\ JsonLoads(text).ok
    /\ JsonLoads(text).val = x
    /\ x.v # <<>> => StartsWith(From(text, 2), <<"\n", " ", " ">>) /\ text[5] # " "
    /\ x.v = <<>> => Len(text) = 2

\* what C7 states of the outcome for the container x
RenderedAsJson(x) ==
    /\ IsJsonFence(ret.markup)
    /\ IsIndentedJsonOf(Enclosed(ret.markup), x)

\* C7 as stated: for any dict or list, whatever its elements, _render_content
\* returns valid JSON indented by 2 spaces in a JSON code fence, and no later
\* rule renders it.
C7_AnyContainerAsJson ==
    RenderedContainer => RenderedAsJson(arg[1])

\* whether x is made of what JSON has: null, booleans, numbers, strings, and
\* lists and dicts of these
RECURSIVE IsJsonValue(_)
IsJsonValue(x) ==
    CASE x.t \in {"none", "bool", "int", "float", "str"} -> TRUE
      [] x.t \in {"list", "dict"} -> \A i \in 1..Len(x.v) : IsJsonValue(x.v[i])
      [] OTHER -> FALSE

\* C7 amended: for any dict or list made of JSON values, empty ones included,
\* _render_content returns valid JSON indented by 2 spaces in a JSON code
\* fence.
C7_JsonContainerAsJson ==
    (RenderedContainer /\ IsJsonValue(arg[1])) => RenderedAsJson(arg[1])

\* a dict of a string and a nested dict came back as a JSON fence
C7_Witness ==
    /\ RenderedContainer
    /\ arg[1] = PyDict(<<ItemKey(1), ItemKey(2)>>,
                       <<PyStr(<<"a", "\"">>), PyDict(<<<<"n">>>>, <<PyInt(2)>>)>>)
    /\ IsJsonFence(ret.markup)
    /\ Len(Enclosed(ret.markup)) > 20

(***************************************************************************)
(* Log mode on its own (SpecLog)                                           *)
(***************************************************************************)

\* the longest tool input and result logged
MaxLen == 102

\* the lengths logged: the short ones, and those around the two limits
Lengths ==
    {0, 1} \cup ((TruncateKeep - 1)..MaxLen)

\* where the one newline of a text is; 0 for none
NewlineAt ==
    {0, 1, TruncateKeep, TruncateKeep + 1, TruncateOver + 1}

\* the text of n characters whose i-th is the last digit of i, or the newline
Text(n, nl) ==
    [i \in 1..n |-> IF i = nl THEN "\n" ELSE Digits[(i % 10) + 1]]

Texts ==
    {Text(n, nl) : n \in Lengths, nl \in NewlineAt}

\* a dict whose string form is longer than the limit
LongDict ==
    PyDict(<<KeyCode>>, <<PyStr(Text(TruncateOver, 0))>>)

\* the steps logged, and an item that is not a pair
LoggedItems ==
    {PyTuple(<<Action(tool, PyStr(input)), PyStr(result)>>) :
        tool \in {PyStr(Search)}, input \in Texts, result \in Texts}
    \cup {PyTuple(<<Action(PyNone, LongDict), PyNone>>),
          PyStr(<<"d", "o", "n", "e">>)}

CallLogStep(item) ==
    /\ pc = "idle"
    /\ pc' = "_log_step"
    /\ arg' = <<item>>
    /\ UNCHANGED <<console, stdout, logged, ret, raised>>

\* lines 206-211 with pretty_print false
LogStep ==
    /\ pc = "_log_step"
    /\ Apply(log_agent_step(arg[1], FALSE))

NextLog ==
    \/ \E item \in LoggedItems : CallLogStep(item)
    \/ LogStep

SpecLog == Init /\ [][NextLog]_vars

\* log mode has returned from a two-element step
LoggedStep ==
    pc = "done" /\ Len(arg) = 1 /\ arg[1].t = "tuple" /\ Len(arg[1].v) = 2

\* what precedes the tool input in the first record
CallLinePrefix(tool_name) ==
    <<Wrench, " ", "T", "o", "o", "l", " ", "c", "a", "l", "l", ":", " ">> \o Str(tool_name)
        \o <<" ", "w", "i", "t", "h", " ", "i", "n", "p", "u", "t", ":", " ">>

\* what precedes the result in the second record
ResultLinePrefix ==
    <<PageFacingUp, " ", "T", "o", "o", "l", " ", "r", "e", "s", "u", "l", "t", ":", " ">>

\* the logged tool-input string and the logged result string
LoggedInput ==
    From(logged[1], Len(CallLinePrefix(GetAttr(arg[1].v[1], AttrTool, PyNone))) + 1)

LoggedResult ==
    From(logged[2], Len(ResultLinePrefix) + 1)

\* the string C6 states for the original s
Shortened(s) ==
    IF Len(s) <= 100 THEN s ELSE SubSeq(s, 1, 97) \o <<".", ".", ".">>

\* the two records are there, each behind its prefix
TwoRecords ==
    /\ Len(logged) = 2
    /\ StartsWith(logged[1], CallLinePrefix(GetAttr(arg[1].v[1], AttrTool, PyNone)))
    /\ StartsWith(logged[2], ResultLinePrefix)

\* C6 as stated: the logged tool input and the logged result each equal the
\* original string form when it has at most 100 characters and its first 97
\* characters and "..." otherwise; the logged result contains no newline.
C6_LoggedEqualsShortened ==
    LoggedStep =>
        /\ TwoRecords
        /\ LoggedInput = Shortened(Str(GetAttr(arg[1].v[1], AttrToolInput, PyDict(<<>>, <<>>))))
        /\ LoggedResult = Shortened(Str(arg[1].v[2]))
        /\ ~Contains(LoggedResult, <<"\n">>)

\* C6 amended: the logged tool input equals the shortened string form; the
\* logged result equals the shortened string form with each newline replaced
\* by a space; neither exceeds 100 characters and the result has no newline.
C6_LoggedResultFlattened ==
    LoggedStep =>
        /\ TwoRecords
        /\ LoggedInput = Shortened(Str(GetAttr(arg[1].v[1], AttrToolInput, PyDict(<<>>, <<>>))))
        /\ Len(LoggedResult) = Len(Shortened(Str(arg[1].v[2])))
        /\ \A i \in 1..Len(LoggedResult) :
              LoggedResult[i] = IF Shortened(Str(arg[1].v[2]))[i] = "\n"
                                THEN " "
                                ELSE Shortened(Str(arg[1].v[2]))[i]
        /\ Len(LoggedInput) <= 100
        /\ Len(LoggedResult) <= 100
        /\ ~Contains(LoggedResult, <<"\n">>)

\* a result of 101 characters with a newline at the 97th was logged as 100
\* characters, and an input of 100 characters was logged whole
C6_Witness ==
    /\ LoggedStep
    /\ arg[1].v[2] = PyStr(Text(101, 97))
    /\ Len(LoggedResult) = 100
    /\ LoggedResult[97] = " "
    /\ GetAttr(arg[1].v[1], AttrToolInput, PyNone) = PyStr(Text(100, 0))
    /\ LoggedInput = Text(100, 0)

(***************************************************************************)
(* The token stream (SpecChat): a run of on_chat_model_stream events, each  *)
(* passed to log_agent_stream in its turn.  arg holds the events so far and *)
(* stdout what the calls wrote.                                            *)
(***************************************************************************)

\* the most elements of a chunk's content
MaxContent == 2

\* the most events of a run
MaxEvents == 2

\* a content element with the given text and type; PyNone for a field left out
ContentElement(text, type) ==
    IF text = PyNone THEN PyDict(<<KeyType>>, <<type>>)
    ELSE IF type = PyNone THEN PyDict(<<KeyText>>, <<text>>)
    ELSE PyDict(<<KeyText, KeyType>>, <<text, type>>)

\* text without a type, typed text, and a fragment of tool-call arguments
ContentElements ==
    {ContentElement(PyStr(<<"a">>), PyNone),
     ContentElement(PyStr(<<"b">>), PyStr(KeyText)),
     ContentElement(PyStr(<<"x">>), PyStr(InputJsonDelta))}

\* an AIMessageChunk with the given content
MessageChunk(content) ==
    PyObject(<<KeyContent>>, <<content>>)

\* chunks whose content is a list of mappings with str text
MessageChunks ==
    UNION {{MessageChunk(PyList(v)) : v \in [1..n -> ContentElements]} : n \in 0..MaxContent}

\* no chunk, a chunk without content, content without text, and content the
\* handler raises on
OtherChunks ==
    {PyNone,
     PyObject(<<>>, <<>>),
     MessageChunk(PyList(<<ContentElement(PyNone, PyStr(<<"t","o","o","l","_","u","s","e">>))>>)),
     MessageChunk(PyList(<<ContentElement(PyStr(<<"a">>), PyNone), PyInt(5)>>)),
     MessageChunk(PyList(<<ContentElement(PyInt(5), PyNone)>>))}

ChatEvent(chunk_obj) ==
    Event(OnChatModelStream, PyStr(<<"l","l","m">>), PyDict(<<KeyChunk>>, <<chunk_obj>>))

\* the event source passes the next event of the run; it stops at an exception
EmitChatEvent(chunk_obj) ==
    /\ Returned
    /\ raised = ""
    /\ Len(arg) < MaxEvents
    /\ pc' = "log_agent_stream"
    /\ arg' = Append(arg, ChatEvent(chunk_obj))
    /\ UNCHANGED <<console, stdout, logged, ret, raised>>

\* lines 214-378 on the event passed last
StreamChatEvent ==
    /\ pc = "log_agent_stream"
    /\ Apply(log_agent_stream(arg[Len(arg)], TRUE))

NextChat ==
    \/ \E chunk_obj \in MessageChunks \cup OtherChunks : EmitChatEvent(chunk_obj)
    \/ StreamChatEvent

SpecChat == Init /\ [][NextChat]_vars

\* the content of the event's chunk; PyNone when there is none
ContentOf(event) ==
    IF Get(Get(event, KeyData), KeyChunk) = PyNone THEN PyNone
    ELSE GetAttr(Get(Get(event, KeyData), KeyChunk), KeyContent, PyNone)

\* whether the content is an ordered sequence of mappings whose text is text
IsSequenceOfMappings(content) ==
    \/ content = PyNone
    \/ /\ content.t = "list"
       /\ \A i \in 1..Len(content.v) :
             /\ content.v[i].t = "dict"
             /\ HasKey(content.v[i], KeyText) => Item(content.v[i], KeyText).t = "str"

\* the text C1 states an element contributes
StatedTextOf(element) ==
    IF HasKey(element, KeyText) /\ Get(element, KeyType) # PyStr(InputJsonDelta)
    THEN Item(element, KeyText).v
    ELSE <<>>

\* the text C1 states an event contributes
StatedText(content) ==
    IF content = PyNone THEN <<>>
    ELSE Join([i \in 1..Len(content.v) |-> StatedTextOf(content.v[i])])

\* the calls for the events of the run have returned
StreamedRun ==
    /\ pc = "done"
    /\ Len(arg) >= 1
    /\ \A i \in 1..Len(arg) : IsSequenceOfMappings(ContentOf(arg[i]))

\* C1: after any run of on_chat_model_stream events, what was written is the
\* concatenation, in order, of the text of the content elements whose type is
\* not input_json_delta, nothing added; the text of an input_json_delta
\* element (here "x") is not in it.
C1_WrittenIsConcatenation ==
    StreamedRun =>
        /\ stdout = Join([i \in 1..Len(arg) |-> StatedText(ContentOf(arg[i]))])
        /\ ~Contains(stdout, <<"x">>)
        /\ raised = ""

\* two events, the first with a fragment before its text and the second with
\* one after, wrote the two texts
C1_Witness ==
    /\ StreamedRun
    /\ Len(arg) = 2
    /\ ContentOf(arg[1]) = PyList(<<ContentElement(PyStr(<<"x">>), PyStr(InputJsonDelta)),
                                    ContentElement(PyStr(<<"a">>), PyNone)>>)
    /\ ContentOf(arg[2]) = PyList(<<ContentElement(PyStr(<<"b">>), PyStr(KeyText)),
                                    ContentElement(PyStr(<<"x">>), PyStr(InputJsonDelta))>>)
    /\ stdout = <<"a", "b">>

====
